---- MODULE Spec2Model ----
(***************************************************************************)
(* State-machine model of the BuyButton component                          *)
(* (src/src/components/SQLCourse/BuyButton.tsx): the mount-time URL        *)
(* parameter effects, the click handler, the checkout-session mutation     *)
(* with its onMutate / onSuccess / onError callbacks, the begin_checkout   *)
(* event callback and the 3000ms fallback timer.                           *)
(*                                                                         *)
(* One page load is modelled: every instance mounts once (a re-mount runs   *)
(* the same effects on the same URL as the mount of one more instance),    *)
(* and the session does not change while the page is open (the login       *)
(* popup reloads the page).  Setting window.location.href leaves the       *)
(* page: after it no handler of the page runs any more.                    *)
(***************************************************************************)
EXTENDS Integers, Sequences, FiniteSets, TLC

\* ---------------------------------------------------------------- bounds
NumInstances == 2   \* BuyButton instances rendered on the page
MaxCmds == 2        \* checkout-session commands issued during one page load

\* ------------------------------------------------------------- constants
SQL_COURSE_SLUG == "sql"
COURSE_PURCHASE_PARAM == "COURSE_PURCHASE_PARAM"
COURSE_PURCHASE_SUCCESS_PARAM == "COURSE_PURCHASE_SUCCESS_PARAM"
FallbackDelayMs == 3000

Instances == 1..NumInstances
Variants == {"main", "floating", "top-nav"}
\* props.variant of each instance: the page renders one button per variant,
\* the hero button (main), the header button (top-nav), the sticky one
\* (floating), and so on in turn
variant ==
  [i \in Instances |->
     IF i % 3 = 1 THEN "main" ELSE IF i % 3 = 2 THEN "top-nav" ELSE "floating"]
\* values a URL query parameter can carry (the empty string: "?name=")
ParamValues == {"", "0", "1"}
ParamNames == {COURSE_PURCHASE_PARAM, COURSE_PURCHASE_SUCCESS_PARAM}
\* every mapping from some of the parameter names to a string
UrlParamMaps == UNION {[D -> ParamValues] : D \in SUBSET ParamNames}

CoursePage == "/courses/" \o SQL_COURSE_SLUG
CourseAppUrl == "PUBLIC_COURSE_APP_URL/" \o SQL_COURSE_SLUG
CheckoutUrls == {"https://checkout/a", "https://checkout/b"}
NoTarget == "no-target"

\* errors the mutation can reject with: message undefined, empty, or text
Errors ==
  { [hasMessage |-> FALSE, message |-> ""],
    [hasMessage |-> TRUE, message |-> ""],
    [hasMessage |-> TRUE, message |-> "card declined"] }

BeginCheckout == SQL_COURSE_SLUG \o "_begin_checkout"
PurchaseComplete == SQL_COURSE_SLUG \o "_purchase_complete"
PurchaseCanceled == SQL_COURSE_SLUG \o "_purchase_canceled"
EventActions == {BeginCheckout, PurchaseComplete, PurchaseCanceled}

VARIABLES
  pc,                \* "unmounted" | "intentDone" | "mounted"
  isLoginPopupOpen,  \* useState(false) of each instance
  cur,               \* the mutation each instance's observer follows (0: idle)
  url,               \* the query parameters of the page address
  loggedIn,          \* what isLoggedIn() answers during this page load
  gtag,              \* whether window.gtag is defined
  coursePricing,     \* "loading" | "data" | "none"
  courseProgress,    \* "loading" | "enrolled" | "notEnrolled"
  cmds,              \* the checkout-session mutations, in order of issue
  toast,             \* the notification shown
  consoleErrors,     \* number of errors console.error has logged
  location,          \* CoursePage, or where window.location.href was set to
  navBy,             \* who set window.location.href
  fired,             \* number of window.fireEvent calls per event action
  delCalls,          \* number of deleteUrlParam calls per parameter name
  everMounted,       \* whether some instance has run its mount effects
  arrivedVia         \* how this page load began: "direct", or the provider's
                     \* return on the "success" or the "cancel" path

vars ==
  << pc, isLoginPopupOpen, cur, url, loggedIn, gtag, coursePricing,
     courseProgress, cmds, toast, consoleErrors, location, navBy, fired,
     delCalls, everMounted, arrivedVia >>

\* ------------------------------------------------------- URL parameters
getUrlParams == url

deleteUrlParam(params, name) ==
  [n \in (DOMAIN params) \ {name} |-> params[n]]

HasParam(name) == name \in DOMAIN url

\* the parameters of a path "page?param=value", as getUrlParams reads them
ParseQuery(path) == [n \in {path.param} |-> path.value]

\* --------------------------------------------------------- derived state
isLoggedIn == loggedIn

isLoadingCourse == coursePricing = "loading"
isLoadingCourseProgress == courseProgress = "loading"

isLoadingPricing ==
  isLoadingCourse \/ coursePricing # "data" \/ isLoadingCourseProgress

isAlreadyEnrolled == courseProgress = "enrolled"

isCreatingCheckoutSession(i) ==
  cur[i] # 0 /\ cmds[cur[i]].status = "pending"

\* the button's disabled attribute, the same in the three variants
ButtonDisabled(i) == isLoadingPricing

\* the class 'pointer-events-none': set by the main and the floating variant
\* while loading or pending, never by the top-nav variant
PointerEventsNone(i) ==
  /\ variant[i] \in {"main", "floating"}
  /\ (isLoadingPricing \/ isCreatingCheckoutSession(i))

\* the login popup element is part of the main and the floating variant only
PopupRendered(i) ==
  /\ pc[i] = "mounted"
  /\ isLoginPopupOpen[i]
  /\ variant[i] \in {"main", "floating"}

OnPage == location = CoursePage

\* React flushes the two mount effects of an instance back to back
Idle == \A j \in Instances : pc[j] # "intentDone"

InFlight(i) ==
  Cardinality({k \in 1..Len(cmds) :
                 cmds[k].owner = i /\ cmds[k].status = "pending"})

\* ------------------------------------------------------------- mutation
\* mutant: the redirect paths carry the intent parameter
RedirectPath_IntentParam(value) ==
  [page |-> "/courses/" \o SQL_COURSE_SLUG,
   param |-> COURSE_PURCHASE_PARAM,
   value |-> value]

RedirectPath(value) ==
  [page |-> "/courses/" \o SQL_COURSE_SLUG,
   param |-> COURSE_PURCHASE_SUCCESS_PARAM,
   value |-> value]

NewCmd(i, body, trigger) ==
  [owner |-> i, trigger |-> trigger, auth |-> isLoggedIn, body |-> body,
   status |-> "pending", checkoutUrl |-> NoTarget, gtagSeen |-> FALSE,
   callback |-> NoTarget,
   timer |-> [delay |-> 0, target |-> NoTarget]]

onMutate ==
  toast' = [type |-> "loading", msg |-> "Creating checkout session..."]

createCheckoutSession(i, body, trigger) ==
  /\ Len(cmds) < MaxCmds
  /\ cmds' = Append(cmds, NewCmd(i, body, trigger))
  /\ cur' = [cur EXCEPT ![i] = Len(cmds) + 1]
  /\ onMutate

\* mutant: an unauthenticated purchase initiation reports an error
initPurchase_ErrorWhenLoggedOut(i, trigger) ==
  IF ~isLoggedIn
    THEN /\ toast' = [type |-> "error", msg |-> "Please login to continue"]
         /\ UNCHANGED << cmds, cur >>
    ELSE createCheckoutSession(
           i,
           [courseId |-> SQL_COURSE_SLUG,
            success |-> RedirectPath("1"),
            cancel |-> RedirectPath("0")],
           trigger)

\* mutant: the purchase initiation does not check the login
initPurchase_NoLoginCheck(i, trigger) ==
  createCheckoutSession(
    i,
    [courseId |-> SQL_COURSE_SLUG,
     success |-> RedirectPath("1"),
     cancel |-> RedirectPath("0")],
    trigger)

initPurchase(i, trigger) ==
  IF ~isLoggedIn
    THEN UNCHANGED << cmds, cur, toast >>
    ELSE createCheckoutSession(
           i,
           [courseId |-> SQL_COURSE_SLUG,
            success |-> RedirectPath("1"),
            cancel |-> RedirectPath("0")],
           trigger)

fireEvent(action) == fired' = [fired EXCEPT ![action] = @ + 1]

\* mutant: the fallback setTimeout is left out
onSuccess_NoTimer(k, data) ==
  IF ~gtag
    THEN /\ location' = data.checkoutUrl
         /\ navBy' = [kind |-> "onSuccess", cmd |-> k]
         /\ cmds' = [cmds EXCEPT ![k].status = "success",
                                 ![k].checkoutUrl = data.checkoutUrl]
         /\ UNCHANGED fired
    ELSE /\ fireEvent(BeginCheckout)
         /\ cmds' = [cmds EXCEPT
                       ![k].status = "success",
                       ![k].checkoutUrl = data.checkoutUrl,
                       ![k].gtagSeen = TRUE,
                       ![k].callback = data.checkoutUrl]
         /\ UNCHANGED << location, navBy >>

\* mutant: the timer closes over the response of the first command
onSuccess_StaleTimerUrl(k, data) ==
  IF ~gtag
    THEN /\ location' = data.checkoutUrl
         /\ navBy' = [kind |-> "onSuccess", cmd |-> k]
         /\ cmds' = [cmds EXCEPT ![k].status = "success",
                                 ![k].checkoutUrl = data.checkoutUrl]
         /\ UNCHANGED fired
    ELSE /\ fireEvent(BeginCheckout)
         /\ cmds' = [cmds EXCEPT
                       ![k].status = "success",
                       ![k].checkoutUrl = data.checkoutUrl,
                       ![k].gtagSeen = TRUE,
                       ![k].callback = data.checkoutUrl,
                       ![k].timer =
                         [delay |-> FallbackDelayMs,
                          target |-> IF cmds[1].checkoutUrl # NoTarget
                                       THEN cmds[1].checkoutUrl
                                       ELSE data.checkoutUrl]]
         /\ UNCHANGED << location, navBy >>

\* mutant: the check of window.gtag is left out
onSuccess_NoGtagCheck(k, data) ==
  /\ fireEvent(BeginCheckout)
  /\ cmds' = [cmds EXCEPT
                ![k].status = "success",
                ![k].checkoutUrl = data.checkoutUrl,
                ![k].gtagSeen = gtag,
                ![k].callback = IF gtag THEN data.checkoutUrl ELSE NoTarget,
                ![k].timer = [delay |-> FallbackDelayMs,
                              target |-> data.checkoutUrl]]
  /\ UNCHANGED << location, navBy >>

onSuccess(k, data) ==
  IF ~gtag
    THEN /\ location' = data.checkoutUrl
         /\ navBy' = [kind |-> "onSuccess", cmd |-> k]
         /\ cmds' = [cmds EXCEPT ![k].status = "success",
                                 ![k].checkoutUrl = data.checkoutUrl]
         /\ UNCHANGED fired
    ELSE /\ fireEvent(BeginCheckout)
         /\ cmds' = [cmds EXCEPT
                       ![k].status = "success",
                       ![k].checkoutUrl = data.checkoutUrl,
                       ![k].gtagSeen = TRUE,
                       ![k].callback = data.checkoutUrl,
                       ![k].timer = [delay |-> FallbackDelayMs,
                                     target |-> data.checkoutUrl]]
         /\ UNCHANGED << location, navBy >>

\* mutant: the server's message is ignored
ErrorText_Generic(error) == "Failed to create checkout session"

ErrorText(error) ==
  IF error.hasMessage /\ error.message # ""
    THEN error.message
    ELSE "Failed to create checkout session"

\* mutant: the failure handler issues the command again
onError_Retry(k, error) ==
  /\ consoleErrors' = consoleErrors + 1
  /\ toast' = [type |-> "error", msg |-> ErrorText(error)]
  /\ cmds' = IF Len(cmds) < MaxCmds
               THEN Append([cmds EXCEPT ![k].status = "error"],
                           [cmds[k] EXCEPT !.status = "pending"])
               ELSE [cmds EXCEPT ![k].status = "error"]

onError(k, error) ==
  /\ consoleErrors' = consoleErrors + 1
  /\ toast' = [type |-> "error", msg |-> ErrorText(error)]
  /\ cmds' = [cmds EXCEPT ![k].status = "error"]

\* ---------------------------------------------------------------- click
\* mutant: the click handler leaves the login check to initPurchase
onBuyClick_NoLoginCheck(i) ==
  IF courseProgress = "enrolled"
    THEN /\ location' = CourseAppUrl
         /\ navBy' = [kind |-> "click", cmd |-> 0]
         /\ UNCHANGED << cmds, cur, toast, isLoginPopupOpen >>
    ELSE /\ initPurchase(i, "click")
         /\ UNCHANGED << isLoginPopupOpen, location, navBy >>

\* mutant: the click handler does not look at the enrollment
onBuyClick_NoEnrolledCheck(i) ==
  IF ~isLoggedIn
    THEN /\ isLoginPopupOpen' = [isLoginPopupOpen EXCEPT ![i] = TRUE]
         /\ UNCHANGED << cmds, cur, toast, location, navBy >>
    ELSE /\ initPurchase(i, "click")
         /\ UNCHANGED << isLoginPopupOpen, location, navBy >>

\* mutant: an authenticated click opens the course whatever the enrollment
onBuyClick_AlwaysToCourse(i) ==
  IF ~isLoggedIn
    THEN /\ isLoginPopupOpen' = [isLoginPopupOpen EXCEPT ![i] = TRUE]
         /\ UNCHANGED << cmds, cur, toast, location, navBy >>
    ELSE /\ location' = CourseAppUrl
         /\ navBy' = [kind |-> "click", cmd |-> 0]
         /\ UNCHANGED << cmds, cur, toast, isLoginPopupOpen >>

onBuyClick(i) ==
  IF ~isLoggedIn
    THEN /\ isLoginPopupOpen' = [isLoginPopupOpen EXCEPT ![i] = TRUE]
         /\ UNCHANGED << cmds, cur, toast, location, navBy >>
    ELSE IF courseProgress = "enrolled"
      THEN /\ location' = CourseAppUrl
           /\ navBy' = [kind |-> "click", cmd |-> 0]
           /\ UNCHANGED << cmds, cur, toast, isLoginPopupOpen >>
      ELSE /\ initPurchase(i, "click")
           /\ UNCHANGED << isLoginPopupOpen, location, navBy >>

\* ---------------------------------------------------------- mount effects
\* mutant: the intent parameter is left in the URL
intentEffect_NoDelete(i) ==
  LET urlParams == getUrlParams
      shouldTriggerPurchase ==
        /\ COURSE_PURCHASE_PARAM \in DOMAIN urlParams
        /\ urlParams[COURSE_PURCHASE_PARAM] = "1"
  IN IF shouldTriggerPurchase
       THEN /\ UNCHANGED << url, delCalls >>
            /\ initPurchase(i, "mount")
       ELSE UNCHANGED << url, delCalls, cmds, cur, toast >>

\* mutant: the intent parameter is deleted behind the login check
intentEffect_DeleteWhenLoggedIn(i) ==
  LET urlParams == getUrlParams
      shouldTriggerPurchase ==
        /\ COURSE_PURCHASE_PARAM \in DOMAIN urlParams
        /\ urlParams[COURSE_PURCHASE_PARAM] = "1"
  IN IF shouldTriggerPurchase /\ isLoggedIn
       THEN /\ url' = deleteUrlParam(url, COURSE_PURCHASE_PARAM)
            /\ delCalls' = [delCalls EXCEPT ![COURSE_PURCHASE_PARAM] = @ + 1]
            /\ initPurchase(i, "mount")
       ELSE UNCHANGED << url, delCalls, cmds, cur, toast >>

\* mutant: the auto-trigger is skipped while pricing or enrollment is loading
\* and for an enrolled user
intentEffect_WaitForQueries(i) ==
  LET urlParams == getUrlParams
      shouldTriggerPurchase ==
        /\ COURSE_PURCHASE_PARAM \in DOMAIN urlParams
        /\ urlParams[COURSE_PURCHASE_PARAM] = "1"
  IN IF shouldTriggerPurchase
       THEN /\ url' = deleteUrlParam(url, COURSE_PURCHASE_PARAM)
            /\ delCalls' = [delCalls EXCEPT ![COURSE_PURCHASE_PARAM] = @ + 1]
            /\ IF isLoadingPricing \/ isAlreadyEnrolled
                 THEN UNCHANGED << cmds, cur, toast >>
                 ELSE initPurchase(i, "mount")
       ELSE UNCHANGED << url, delCalls, cmds, cur, toast >>

\* mutant: handling the intent parameter also removes the outcome parameter
intentEffect_DeleteBoth(i) ==
  LET urlParams == getUrlParams
      shouldTriggerPurchase ==
        /\ COURSE_PURCHASE_PARAM \in DOMAIN urlParams
        /\ urlParams[COURSE_PURCHASE_PARAM] = "1"
  IN IF shouldTriggerPurchase
       THEN /\ url' = deleteUrlParam(
                        deleteUrlParam(url, COURSE_PURCHASE_PARAM),
                        COURSE_PURCHASE_SUCCESS_PARAM)
            /\ delCalls' = [delCalls EXCEPT ![COURSE_PURCHASE_PARAM] = @ + 1]
            /\ initPurchase(i, "mount")
       ELSE UNCHANGED << url, delCalls, cmds, cur, toast >>

intentEffect(i) ==
  LET urlParams == getUrlParams
      shouldTriggerPurchase ==
        /\ COURSE_PURCHASE_PARAM \in DOMAIN urlParams
        /\ urlParams[COURSE_PURCHASE_PARAM] = "1"
  IN IF shouldTriggerPurchase
       THEN /\ url' = deleteUrlParam(url, COURSE_PURCHASE_PARAM)
            /\ delCalls' = [delCalls EXCEPT ![COURSE_PURCHASE_PARAM] = @ + 1]
            /\ initPurchase(i, "mount")
       ELSE UNCHANGED << url, delCalls, cmds, cur, toast >>

\* mutant: the outcome parameter is deleted in the success branch only
outcomeEffect_DeleteOnSuccessOnly(i) ==
  LET urlParams == getUrlParams
      present == COURSE_PURCHASE_SUCCESS_PARAM \in DOMAIN urlParams
  IN IF ~present \/ urlParams[COURSE_PURCHASE_SUCCESS_PARAM] = ""
       THEN UNCHANGED << fired, url, delCalls >>
       ELSE IF urlParams[COURSE_PURCHASE_SUCCESS_PARAM] = "1"
         THEN /\ fireEvent(PurchaseComplete)
              /\ url' = deleteUrlParam(url, COURSE_PURCHASE_SUCCESS_PARAM)
              /\ delCalls' =
                   [delCalls EXCEPT ![COURSE_PURCHASE_SUCCESS_PARAM] = @ + 1]
         ELSE /\ fireEvent(PurchaseCanceled)
              /\ UNCHANGED << url, delCalls >>

outcomeEffect(i) ==
  LET urlParams == getUrlParams
      present == COURSE_PURCHASE_SUCCESS_PARAM \in DOMAIN urlParams
  IN IF ~present \/ urlParams[COURSE_PURCHASE_SUCCESS_PARAM] = ""
       THEN UNCHANGED << fired, url, delCalls >>
       ELSE /\ IF urlParams[COURSE_PURCHASE_SUCCESS_PARAM] = "1"
                 THEN fireEvent(PurchaseComplete)
                 ELSE fireEvent(PurchaseCanceled)
            /\ url' = deleteUrlParam(url, COURSE_PURCHASE_SUCCESS_PARAM)
            /\ delCalls' =
                 [delCalls EXCEPT ![COURSE_PURCHASE_SUCCESS_PARAM] = @ + 1]

\* ---------------------------------------------------------------- actions
Init ==
  /\ pc = [i \in Instances |-> "unmounted"]
  /\ isLoginPopupOpen = [i \in Instances |-> FALSE]
  /\ cur = [i \in Instances |-> 0]
  /\ url \in UrlParamMaps
  /\ loggedIn \in BOOLEAN
  /\ gtag \in BOOLEAN
  /\ coursePricing = "loading"
  /\ courseProgress = "loading"
  /\ cmds = << >>
  /\ toast = [type |-> "none", msg |-> ""]
  /\ consoleErrors = 0
  /\ location = CoursePage
  /\ navBy = [kind |-> "none", cmd |-> 0]
  /\ fired = [a \in EventActions |-> 0]
  /\ delCalls = [n \in ParamNames |-> 0]
  /\ everMounted = FALSE
  /\ arrivedVia = "direct"

\* the first useEffect of a mounting instance
MountIntentEffect(i) ==
  /\ OnPage /\ Idle
  /\ pc[i] = "unmounted"
  /\ intentEffect(i)
  /\ pc' = [pc EXCEPT ![i] = "intentDone"]
  /\ UNCHANGED << isLoginPopupOpen, loggedIn, gtag, coursePricing,
                  courseProgress, consoleErrors, location, navBy, fired,
                  everMounted, arrivedVia >>

\* the second useEffect of a mounting instance
MountOutcomeEffect(i) ==
  /\ OnPage
  /\ pc[i] = "intentDone"
  /\ outcomeEffect(i)
  /\ pc' = [pc EXCEPT ![i] = "mounted"]
  /\ everMounted' = TRUE
  /\ UNCHANGED << arrivedVia, isLoginPopupOpen, cur, loggedIn, gtag,
                  coursePricing, courseProgress, cmds, toast, consoleErrors,
                  location, navBy >>

\* a pointer click that reaches the button
Click(i) ==
  /\ OnPage /\ Idle
  /\ pc[i] = "mounted"
  /\ ~ButtonDisabled(i)
  /\ ~PointerEventsNone(i)
  /\ onBuyClick(i)
  /\ UNCHANGED << pc, url, loggedIn, gtag, coursePricing,
                  courseProgress, consoleErrors, fired, delCalls,
                  everMounted, arrivedVia >>

CloseLoginPopup(i) ==
  /\ OnPage /\ Idle
  /\ PopupRendered(i)
  /\ isLoginPopupOpen' = [isLoginPopupOpen EXCEPT ![i] = FALSE]
  /\ UNCHANGED << pc, cur, url, loggedIn, gtag, coursePricing,
                  courseProgress, cmds, toast, consoleErrors, location, navBy,
                  fired, delCalls,
                  everMounted, arrivedVia >>

CmdSucceed(k) ==
  /\ OnPage /\ Idle
  /\ k \in 1..Len(cmds)
  /\ cmds[k].status = "pending"
  /\ \E u \in CheckoutUrls : onSuccess(k, [checkoutUrl |-> u])
  /\ UNCHANGED << pc, isLoginPopupOpen, cur, url, loggedIn, gtag,
                  coursePricing, courseProgress, toast, consoleErrors,
                  delCalls,
                  everMounted, arrivedVia >>

CmdFail(k) ==
  /\ OnPage /\ Idle
  /\ k \in 1..Len(cmds)
  /\ cmds[k].status = "pending"
  /\ \E e \in Errors : onError(k, e)
  /\ UNCHANGED << pc, isLoginPopupOpen, cur, url, loggedIn, gtag,
                  coursePricing, courseProgress, location, navBy, fired,
                  delCalls,
                  everMounted, arrivedVia >>

\* gtag invokes the event_callback of the begin_checkout event
CallbackFire(k) ==
  /\ OnPage /\ Idle
  /\ k \in 1..Len(cmds)
  /\ cmds[k].callback # NoTarget
  /\ location' = cmds[k].callback
  /\ navBy' = [kind |-> "callback", cmd |-> k]
  /\ UNCHANGED << pc, isLoginPopupOpen, cur, url, loggedIn, gtag,
                  coursePricing, courseProgress, cmds, toast, consoleErrors,
                  fired, delCalls,
                  everMounted, arrivedVia >>

\* the setTimeout of onSuccess expires
TimerFire(k) ==
  /\ OnPage /\ Idle
  /\ k \in 1..Len(cmds)
  /\ cmds[k].timer.target # NoTarget
  /\ location' = cmds[k].timer.target
  /\ navBy' = [kind |-> "timer", cmd |-> k]
  /\ UNCHANGED << pc, isLoginPopupOpen, cur, url, loggedIn, gtag,
                  coursePricing, courseProgress, cmds, toast, consoleErrors,
                  fired, delCalls,
                  everMounted, arrivedVia >>

PricingResolve ==
  /\ OnPage /\ Idle
  /\ coursePricing = "loading"
  /\ coursePricing' \in {"data", "none"}
  /\ UNCHANGED << pc, isLoginPopupOpen, cur, url, loggedIn, gtag,
                  courseProgress, cmds, toast, consoleErrors, location, navBy,
                  fired, delCalls,
                  everMounted, arrivedVia >>

ProgressResolve ==
  /\ OnPage /\ Idle
  /\ courseProgress = "loading"
  /\ courseProgress' \in {"enrolled", "notEnrolled"}
  /\ UNCHANGED << pc, isLoginPopupOpen, cur, url, loggedIn, gtag,
                  coursePricing, cmds, toast, consoleErrors, location, navBy,
                  fired, delCalls,
                  everMounted, arrivedVia >>

\* the analytics script finishes loading
GtagLoad ==
  /\ OnPage /\ Idle
  /\ ~gtag
  /\ gtag' = TRUE
  /\ UNCHANGED << pc, isLoginPopupOpen, cur, url, loggedIn,
                  coursePricing, courseProgress, cmds, toast, consoleErrors,
                  location, navBy, fired, delCalls,
                  everMounted, arrivedVia >>

\* the payment provider sends the browser back to the success or the cancel
\* path of the session it was opened for: a new load of the page
ProviderReturn ==
  /\ ~OnPage
  /\ navBy.cmd \in 1..Len(cmds)
  /\ location = cmds[navBy.cmd].checkoutUrl
  /\ \E via \in {"success", "cancel"} :
       LET path == cmds[navBy.cmd].body[via]
       IN /\ path.page = CoursePage
          /\ url' = ParseQuery(path)
          /\ arrivedVia' = via
  /\ location' = CoursePage
  /\ pc' = [i \in Instances |-> "unmounted"]
  /\ isLoginPopupOpen' = [i \in Instances |-> FALSE]
  /\ cur' = [i \in Instances |-> 0]
  /\ gtag' \in BOOLEAN
  /\ coursePricing' = "loading"
  /\ courseProgress' = "loading"
  /\ cmds' = << >>
  /\ toast' = [type |-> "none", msg |-> ""]
  /\ consoleErrors' = 0
  /\ navBy' = [kind |-> "none", cmd |-> 0]
  /\ fired' = [a \in EventActions |-> 0]
  /\ delCalls' = [n \in ParamNames |-> 0]
  /\ everMounted' = FALSE
  /\ UNCHANGED loggedIn

Next ==
  \/ \E i \in Instances : MountIntentEffect(i)
  \/ \E i \in Instances : MountOutcomeEffect(i)
  \/ \E i \in Instances : Click(i)
  \/ \E i \in Instances : CloseLoginPopup(i)
  \/ \E k \in 1..MaxCmds : CmdSucceed(k)
  \/ \E k \in 1..MaxCmds : CmdFail(k)
  \/ \E k \in 1..MaxCmds : CallbackFire(k)
  \/ \E k \in 1..MaxCmds : TimerFire(k)
  \/ PricingResolve
  \/ ProgressResolve
  \/ GtagLoad
  \/ ProviderReturn

Spec == Init /\ [][Next]_vars

\* a scheduled fallback timer expires at an idle moment of the event loop
\* (strong fairness: a mount flush may disable it for a moment), and a started
\* flush of mount effects completes
Fairness ==
  /\ SF_vars(\E k \in 1..MaxCmds : TimerFire(k))
  /\ WF_vars(\E i \in Instances : MountOutcomeEffect(i))

LiveSpec == Init /\ [][Next]_vars /\ Fairness

\* ------------------------------------------------------ steps, for claims
\* the step in which instance i runs its first / second mount effect
IntentStep(i) == pc[i] = "unmounted" /\ pc'[i] = "intentDone"
OutcomeStep(i) == pc[i] = "intentDone" /\ pc'[i] = "mounted"
\* the steps in which command k settles
SucceedStep(k) ==
  /\ cmds[k].status = "pending"
  /\ k \in 1..Len(cmds')
  /\ cmds'[k].status = "success"
FailStep(k) ==
  /\ cmds[k].status = "pending"
  /\ k \in 1..Len(cmds')
  /\ cmds'[k].status = "error"

OutcomeEvents == fired[PurchaseComplete] + fired[PurchaseCanceled]
MountCmds == {k \in 1..Len(cmds) : cmds[k].trigger = "mount"}

\* ----------------------------------------------------------------- C1
\* C1: for every instance, of any variant, the number of checkout-session
\* commands it has in flight never exceeds one.
C1_AtMostOnePending == \A i \in Instances : InFlight(i) <= 1

\* ----------------------------------------------------------------- C2
\* C2 as stated: a mount that finds the outcome parameter in the URL,
\* whatever its value, emits exactly one of purchase_complete and
\* purchase_canceled and leaves the URL without the parameter; a mount that
\* does not find it emits nothing and leaves the URL as it was.
C2_AnyValueReported ==
  [][\A i \in Instances :
       OutcomeStep(i) =>
         IF HasParam(COURSE_PURCHASE_SUCCESS_PARAM)
           THEN /\ OutcomeEvents' = OutcomeEvents + 1
                /\ COURSE_PURCHASE_SUCCESS_PARAM \notin DOMAIN url'
           ELSE /\ fired' = fired
                /\ url' = url]_vars

\* C2 (amended): a mount that finds the outcome parameter with a non-empty
\* value emits exactly one of purchase_complete (value "1") and
\* purchase_canceled (any other non-empty value) and leaves the URL without
\* the parameter; a mount that finds it absent or empty emits nothing and
\* leaves the URL as it was.
C2_NonEmptyValueReported ==
  [][\A i \in Instances :
       OutcomeStep(i) =>
         IF /\ HasParam(COURSE_PURCHASE_SUCCESS_PARAM)
            /\ url[COURSE_PURCHASE_SUCCESS_PARAM] # ""
           THEN /\ OutcomeEvents' = OutcomeEvents + 1
                /\ fired'[PurchaseComplete] - fired[PurchaseComplete] =
                     (IF url[COURSE_PURCHASE_SUCCESS_PARAM] = "1" THEN 1 ELSE 0)
                /\ fired'[BeginCheckout] = fired[BeginCheckout]
                /\ COURSE_PURCHASE_SUCCESS_PARAM \notin DOMAIN url'
           ELSE /\ fired' = fired
                /\ url' = url]_vars

C2_Witness ==
  /\ \E i \in Instances : pc[i] = "mounted"
  /\ fired[PurchaseCanceled] = 1
  /\ fired[PurchaseComplete] = 0
  /\ delCalls[COURSE_PURCHASE_SUCCESS_PARAM] = 1
  /\ ~HasParam(COURSE_PURCHASE_SUCCESS_PARAM)

\* ----------------------------------------------------------------- C3
\* C3: a mount that finds the intent parameter equal to "1" deletes it from
\* the URL exactly once (one deleteUrlParam call in the first effect, none in
\* the second), for an authenticated and for an unauthenticated user.
C3_IntentDeletedOnce ==
  [][\A i \in Instances :
       /\ (IntentStep(i) /\ HasParam(COURSE_PURCHASE_PARAM)
             /\ url[COURSE_PURCHASE_PARAM] = "1")
            => /\ COURSE_PURCHASE_PARAM \notin DOMAIN url'
               /\ delCalls'[COURSE_PURCHASE_PARAM] =
                    delCalls[COURSE_PURCHASE_PARAM] + 1
       /\ OutcomeStep(i)
            => delCalls'[COURSE_PURCHASE_PARAM] =
                 delCalls[COURSE_PURCHASE_PARAM]]_vars

\* an unauthenticated mount has deleted the intent parameter
C3_Witness ==
  /\ \E i \in Instances : pc[i] = "mounted"
  /\ ~loggedIn
  /\ delCalls[COURSE_PURCHASE_PARAM] = 1
  /\ ~HasParam(COURSE_PURCHASE_PARAM)
  /\ cmds = << >>

\* ----------------------------------------------------------------- C4
\* C4: each URL parameter is interpreted at most once per page load: a mount
\* that comes after another mount of the page issues no command and emits no
\* purchase_complete or purchase_canceled event, at most one command is ever
\* issued from the mount path and neither parameter is ever deleted twice.
C4_ParamsInterpretedOnce ==
  /\ [][\A i \in Instances :
          ((IntentStep(i) \/ OutcomeStep(i)) /\ everMounted)
            => /\ cmds' = cmds
               /\ OutcomeEvents' = OutcomeEvents]_vars
  /\ [](/\ Cardinality(MountCmds) <= 1
        /\ OutcomeEvents <= 1
        /\ \A n \in ParamNames : delCalls[n] <= 1)

\* both parameters were consumed, and every instance has mounted since
C4_Witness ==
  /\ \A i \in Instances : pc[i] = "mounted"
  /\ delCalls[COURSE_PURCHASE_PARAM] = 1
  /\ delCalls[COURSE_PURCHASE_SUCCESS_PARAM] = 1
  /\ Cardinality(MountCmds) = 1
  /\ OutcomeEvents = 1

\* ----------------------------------------------------------------- C5
\* C5 as stated, as the final result of a page load: once the page has been
\* left, it has been left for the checkoutUrl of every command that succeeded.
C5_SuccessReachesCheckout ==
  \A k \in 1..Len(cmds) :
    (cmds[k].status = "success" /\ ~OnPage) => location = cmds[k].checkoutUrl

\* C5 (amended): whenever a command succeeds the browser eventually leaves the
\* page, with analytics absent, with the event callback firing or with the
\* fallback timer alone; the navigation is to that command's checkoutUrl
\* unless another navigation (the redirect of another command, or the click
\* of an enrolled user) happens first.
C5_SuccessLeavesPage ==
  /\ (\E k \in 1..Len(cmds) : cmds[k].status = "success") ~> ~OnPage
  /\ [](\A k \in 1..Len(cmds) :
          (~OnPage /\ navBy.cmd = k)
            => /\ cmds[k].status = "success"
               /\ location = cmds[k].checkoutUrl)

\* the callback never ran and the timer performed the redirect
C5_Witness ==
  \E k \in 1..Len(cmds) :
    /\ cmds[k].status = "success"
    /\ navBy = [kind |-> "timer", cmd |-> k]
    /\ location = cmds[k].checkoutUrl

C7_NoAnalyticsImmediateRedirect ==
  [][\A k \in 1..Len(cmds) :
       (SucceedStep(k) /\ ~gtag)
         => /\ location' = cmds'[k].checkoutUrl
            /\ location' \in CheckoutUrls
            /\ navBy' = [kind |-> "onSuccess", cmd |-> k]
            /\ fired' = fired
            /\ cmds'[k].callback = NoTarget
            /\ cmds'[k].timer.target = NoTarget]_vars

C7_Witness ==
  /\ ~gtag
  /\ navBy.kind = "onSuccess"
  /\ location = cmds[navBy.cmd].checkoutUrl
  /\ fired[BeginCheckout] = 0

\* ----------------------------------------------------------------- C8
\* C8: a click while not authenticated opens the login popup of the instance,
\* issues no command, does not navigate and leaves the URL as it was.
C8_UnauthenticatedClick ==
  [][\A i \in Instances :
       (Click(i) /\ ~loggedIn)
         => /\ isLoginPopupOpen'[i]
            /\ cmds' = cmds
            /\ location' = location
            /\ url' = url]_vars

C8_Witness ==
  \E i \in Instances :
    /\ isLoginPopupOpen[i]
    /\ ~loggedIn
    /\ cmds = << >>
    /\ OnPage
    /\ DOMAIN url = ParamNames

\* ----------------------------------------------------------------- C9
\* C9: a click while authenticated and enrolled navigates to the
\* course-consumption URL and issues no command.
C9_EnrolledClick ==
  [][\A i \in Instances :
       (Click(i) /\ loggedIn /\ courseProgress = "enrolled")
         => /\ location' = CourseAppUrl
            /\ cmds' = cmds]_vars

C9_Witness ==
  /\ location = CourseAppUrl
  /\ navBy.kind = "click"
  /\ loggedIn
  /\ courseProgress = "enrolled"

\* ---------------------------------------------------------------- C10
\* C10: when a command fails, the step shows an error notification: with the
\* server's message when the error carries a non-empty one, with 'Failed to
\* create checkout session' when it carries none (or an empty one).
C10_ErrorNotification ==
  [][\A k \in 1..Len(cmds) : \A e \in Errors :
       (FailStep(k) /\ onError(k, e))
         => /\ toast'.type = "error"
            /\ (e.hasMessage /\ e.message = "card declined")
                 => toast'.msg = "card declined"
            /\ (~e.hasMessage \/ e.message = "")
                 => toast'.msg = "Failed to create checkout session"]_vars

C10_Witness ==
  /\ \E k \in 1..Len(cmds) : cmds[k].status = "error"
  /\ toast = [type |-> "error", msg |-> "card declined"]

\* ---------------------------------------------------------------- C11
\* the steps in which a command is issued
IssueStep == Len(cmds') > Len(cmds)

\* C11: the step in which a command fails performs no redirect and issues no
\* command, and leaves the command settled with no callback and no timer; a
\* command is only ever issued by a mount effect or a click (none on the
\* component's own, so no retry); a failed command never navigates; and once
\* the command an instance follows has failed, a click on that instance of an
\* authenticated, not enrolled user (queries resolved, page idle) can issue a
\* new command.
C11_FailureNoRetry ==
  /\ [][\A k \in 1..Len(cmds) :
          FailStep(k)
            => /\ location' = location
               /\ Len(cmds') = Len(cmds)
               /\ cmds'[k].callback = NoTarget
               /\ cmds'[k].timer.target = NoTarget]_vars
  /\ [][IssueStep
          => /\ Len(cmds') = Len(cmds) + 1
             /\ \E i \in Instances : IntentStep(i) \/ Click(i)]_vars
  /\ [](\A k \in 1..Len(cmds) :
          cmds[k].status = "error" => navBy.cmd # k)
  /\ [](\A i \in Instances :
          (/\ cur[i] # 0
           /\ cmds[cur[i]].status = "error"
           /\ OnPage /\ Idle
           /\ loggedIn
           /\ ~isLoadingPricing
           /\ courseProgress # "enrolled"
           /\ Len(cmds) < MaxCmds)
            => ENABLED (Click(i) /\ IssueStep))

\* after the failure of its first command an instance issued a second one on
\* a click
C11_Witness ==
  /\ Len(cmds) = 2
  /\ cmds[1].status = "error"
  /\ cmds[2].trigger = "click"
  /\ cmds[2].owner = cmds[1].owner
  /\ cmds[2].status = "pending"
  /\ variant[cmds[1].owner] = "main"
  /\ OnPage

\* ---------------------------------------------------------------- C12
\* C12: a mount that finds the intent parameter equal to "1" while the user
\* is not authenticated does nothing further: neither of its two effects
\* issues a command, opens the login popup, shows a notification or
\* navigates.
C12_SilentWhenLoggedOut ==
  [][\A i \in Instances :
       /\ (IntentStep(i) /\ ~loggedIn /\ HasParam(COURSE_PURCHASE_PARAM)
             /\ url[COURSE_PURCHASE_PARAM] = "1")
            => /\ cmds' = cmds
               /\ cur' = cur
               /\ isLoginPopupOpen' = isLoginPopupOpen
               /\ toast' = toast
               /\ location' = location
       /\ (OutcomeStep(i) /\ ~loggedIn)
            => /\ cmds' = cmds
               /\ isLoginPopupOpen' = isLoginPopupOpen
               /\ toast' = toast
               /\ location' = location]_vars

\* an unauthenticated auto-trigger has run and nothing is shown
C12_Witness ==
  /\ ~loggedIn
  /\ delCalls[COURSE_PURCHASE_PARAM] = 1
  /\ \A i \in Instances : pc[i] = "mounted" /\ ~isLoginPopupOpen[i]
  /\ toast.type = "none"
  /\ cmds = << >>
  /\ OnPage

\* ---------------------------------------------------------------- C13
\* C13: in every variant, a click while not authenticated results in the
\* login popup being shown to the user, and the popup stays shown until its
\* close handler runs.
C13_PopupShownInEveryVariant ==
  /\ [][\A i \in Instances :
          (Click(i) /\ ~loggedIn) => PopupRendered(i)']_vars
  /\ [][\A i \in Instances :
          (PopupRendered(i) /\ ~PopupRendered(i)')
            => (isLoginPopupOpen[i] /\ ~isLoginPopupOpen'[i]
                  /\ UNCHANGED << pc, cmds, location, url >>)]_vars

\* ---------------------------------------------------------------- C15
\* C15: a mount that finds the intent parameter equal to "1" while the user
\* is authenticated issues a checkout-session command in that very step,
\* whether the pricing and enrollment queries have resolved or not and
\* whatever the enrollment status is.
C15_AutoTriggerIgnoresQueries ==
  [][\A i \in Instances :
       (IntentStep(i) /\ loggedIn /\ HasParam(COURSE_PURCHASE_PARAM)
          /\ url[COURSE_PURCHASE_PARAM] = "1")
         => /\ Len(cmds') = Len(cmds) + 1
            /\ cmds'[Len(cmds')].trigger = "mount"
            /\ cmds'[Len(cmds')].owner = i
            /\ cmds'[Len(cmds')].status = "pending"
            /\ UNCHANGED << coursePricing, courseProgress >>]_vars

\* the auto-triggered command of an enrolled user
C15_Witness ==
  /\ MountCmds # {}
  /\ courseProgress = "enrolled"
  /\ coursePricing = "loading"
  /\ OnPage

\* ---------------------------------------------------------------- C16
\* C16: the intent parameter is deleted before purchase initiation is
\* invoked: in every state in which a mount-triggered command has been
\* issued the intent parameter is absent from the URL, already in the state
\* right after the mount step that issued it.
C16_IntentDeletedBeforePurchase ==
  /\ [](MountCmds # {} => ~HasParam(COURSE_PURCHASE_PARAM))
  /\ [][\A i \in Instances :
          (IntentStep(i) /\ IssueStep)
            => /\ HasParam(COURSE_PURCHASE_PARAM)
               /\ ~HasParam(COURSE_PURCHASE_PARAM)'
               /\ delCalls'[COURSE_PURCHASE_PARAM] = 1]_vars

\* the auto-triggered command is pending in the first effect's post-state
C16_Witness ==
  \E i \in Instances :
    /\ pc[i] = "intentDone"
    /\ MountCmds = {1}
    /\ cmds[1].owner = i
    /\ cmds[1].status = "pending"
    /\ ~HasParam(COURSE_PURCHASE_PARAM)

\* ---------------------------------------------------------------- C17
\* the first effect leaves the outcome parameter, the outcome events and the
\* outcome deletions alone; the second effect leaves the intent parameter,
\* the commands and the intent deletions alone
EffectsIndependent ==
  \A i \in Instances :
    /\ IntentStep(i)
         => /\ HasParam(COURSE_PURCHASE_SUCCESS_PARAM)'
                 = HasParam(COURSE_PURCHASE_SUCCESS_PARAM)
            /\ HasParam(COURSE_PURCHASE_SUCCESS_PARAM)
                 => url'[COURSE_PURCHASE_SUCCESS_PARAM]
                      = url[COURSE_PURCHASE_SUCCESS_PARAM]
            /\ fired' = fired
            /\ delCalls'[COURSE_PURCHASE_SUCCESS_PARAM]
                 = delCalls[COURSE_PURCHASE_SUCCESS_PARAM]
    /\ OutcomeStep(i)
         => /\ HasParam(COURSE_PURCHASE_PARAM)' = HasParam(COURSE_PURCHASE_PARAM)
            /\ HasParam(COURSE_PURCHASE_PARAM)
                 => url'[COURSE_PURCHASE_PARAM] = url[COURSE_PURCHASE_PARAM]
            /\ cmds' = cmds
            /\ cur' = cur
            /\ delCalls'[COURSE_PURCHASE_PARAM] = delCalls[COURSE_PURCHASE_PARAM]

C18_CommandsOnlyWhenAuthenticated ==
  /\ [](\A k \in 1..Len(cmds) : cmds[k].auth)
  /\ [][IssueStep => isLoggedIn]_vars

\* a mount-triggered and a click-triggered command, both issued authenticated
C18_Witness ==
  /\ Len(cmds) = 2
  /\ cmds[1].trigger = "mount"
  /\ cmds[2].trigger = "click"
  /\ cmds[1].auth /\ cmds[2].auth

\* ---------------------------------------------------------------- C19
\* every navigation is to the checkoutUrl of a command that has succeeded, or
\* to the course-consumption URL after a click of an authenticated, enrolled
\* user
NavigationTargets ==
  ~OnPage =>
    \/ /\ navBy.kind \in {"onSuccess", "callback", "timer"}
       /\ navBy.cmd \in 1..Len(cmds)
       /\ cmds[navBy.cmd].status = "success"
       /\ location = cmds[navBy.cmd].checkoutUrl
    \/ /\ navBy.kind = "click"
       /\ location = CourseAppUrl
       /\ loggedIn
       /\ courseProgress = "enrolled"

NavigationStep == OnPage /\ ~OnPage'

\* C19 as stated: every navigation goes to the checkoutUrl of a succeeded
\* command or, after a click of an authenticated enrolled user, to the
\* course-consumption URL; no navigation occurs while a command is pending,
\* after a command failure, or from the outcome-reporting branch.
C19_NoNavigationWhilePending ==
  /\ []NavigationTargets
  /\ [][NavigationStep
          => /\ \A k \in 1..Len(cmds') : cmds'[k].status = "success"
             /\ \A i \in Instances : ~OutcomeStep(i)]_vars

\* C19, amended: every navigation goes to the checkoutUrl of a succeeded
\* command or, after a click of an authenticated enrolled user, to the
\* course-consumption URL; no navigation is made for a command that is
\* pending or has failed, none in the step that issues a command or in which
\* a command fails, and none from the outcome-reporting branch.
C19_NavigationOnlyBySuccessOrEnrolledClick ==
  /\ []NavigationTargets
  /\ [](\A k \in 1..Len(cmds) :
          cmds[k].status # "success"
            => /\ navBy.cmd # k
               /\ cmds[k].callback = NoTarget
               /\ cmds[k].timer.target = NoTarget)
  /\ [][NavigationStep
          => /\ ~IssueStep
             /\ \A k \in 1..Len(cmds) : ~FailStep(k)
             /\ \A i \in Instances : ~OutcomeStep(i) /\ ~IntentStep(i)]_vars

\* the page was left by a click of an enrolled user while the auto-triggered
\* command of another button was still pending
C19_Witness ==
  /\ ~OnPage
  /\ navBy.kind = "click"
  /\ location = CourseAppUrl
  /\ Len(cmds) = 1
  /\ cmds[1].status = "pending"
  /\ InFlight(1) = 0
  /\ \A i \in Instances : pc[i] = "mounted"

\* ---------------------------------------------------------------- C14
\* C14: round trip of the redirect targets. Every command is issued with a
\* success path and a cancel path that name the same course page, the page
\* of the component, and differ only in the value of the outcome parameter
\* ("1" and "0"); the provider's return lands on one of them, and the first
\* mount on the success path emits purchase_complete, the first mount on the
\* cancel path purchase_canceled, each exactly once per page load and never
\* the other event.
C14_RedirectRoundTrip ==
  /\ [](\A k \in 1..Len(cmds) :
          LET success == cmds[k].body.success
              cancel == cmds[k].body.cancel
          IN /\ success.page = CoursePage
             /\ cancel.page = success.page
             /\ success.param = COURSE_PURCHASE_SUCCESS_PARAM
             /\ cancel.param = success.param
             /\ success.value = "1"
             /\ cancel.value = "0")
  /\ [][(~OnPage /\ OnPage')
          => /\ navBy.cmd \in 1..Len(cmds)
             /\ url' \in {ParseQuery(cmds[navBy.cmd].body.success),
                          ParseQuery(cmds[navBy.cmd].body.cancel)}
             /\ arrivedVia' \in {"success", "cancel"}
             /\ url' = ParseQuery(cmds[navBy.cmd].body[arrivedVia'])
             /\ fired' = [a \in EventActions |-> 0]
             /\ ~everMounted']_vars
  /\ [][\A i \in Instances :
          /\ (OutcomeStep(i) /\ ~everMounted
                /\ url = ParseQuery(RedirectPath("1")))
               => /\ fired'[PurchaseComplete] = 1
                  /\ fired'[PurchaseCanceled] = 0
          /\ (OutcomeStep(i) /\ ~everMounted
                /\ url = ParseQuery(RedirectPath("0")))
               => /\ fired'[PurchaseCanceled] = 1
                  /\ fired'[PurchaseComplete] = 0
          /\ (OutcomeStep(i) /\ everMounted) => fired' = fired
          /\ IntentStep(i) => fired' = fired]_vars
  /\ [](fired[PurchaseComplete] + fired[PurchaseCanceled] <= 1)
  /\ []((everMounted /\ arrivedVia = "success")
          => fired[PurchaseComplete] = 1 /\ fired[PurchaseCanceled] = 0)
  /\ []((everMounted /\ arrivedVia = "cancel")
          => fired[PurchaseCanceled] = 1 /\ fired[PurchaseComplete] = 0)
  /\ []((~everMounted /\ arrivedVia # "direct") => OutcomeEvents = 0)

\* after a return from the provider every instance has mounted and the
\* cancellation was reported once
C14_Witness ==
  /\ \A i \in Instances : pc[i] = "mounted"
  /\ fired[PurchaseCanceled] = 1
  /\ fired[PurchaseComplete] = 0
  /\ fired[BeginCheckout] = 0
  /\ gtag
  /\ loggedIn
  /\ arrivedVia = "cancel"
  /\ DOMAIN url = {}
  /\ delCalls[COURSE_PURCHASE_SUCCESS_PARAM] = 1

====
